---- MODULE Spec2Model ----
(***************************************************************************)
(* Mempool-Monitor: the worker pool (src/src/worker.rs), the transaction   *)
(* store (src/src/database.rs), the content addresser (src/src/utils.rs)   *)
(* and the start-up / producers (src/src/app.rs) as one state machine.     *)
(*                                                                         *)
(* Every SQL statement is one atomic step (a pooled SQLite connection per  *)
(* call); a handler made of several statements is several steps, so the    *)
(* two workers interleave between statements exactly as the code allows.  *)
(* worker.rs takes no lock anywhere.                                       *)
(*                                                                         *)
(* Hashes (SHA-256, txid) are idealised as injective: a hash is modelled   *)
(* by the byte encoding it is computed over.                               *)
(***************************************************************************)
EXTENDS FiniteSets, Integers, Sequences, TLC

\* ------------------------------------------------------------------ bounds
NUM_WORKERS == 2
QueueCap == 2
MaxTasks == 2
MaxTasksLong == 3
MaxTime == 2

UNIX_EPOCH == 0

Workers == 1..NUM_WORKERS

\* ------------------------------------------------- bitcoin transactions
\* previous_output.txid of a coinbase input is all zeros, vout is u32::MAX
NullTxid == <<>>
NullVout == 255
\* txid of a funding transaction the monitor never sees
ExtTxid == <<0>>
\* SQL NULL in the parent_txid column
NULL == <<0, 0, 0>>

TxIn(prev_txid, prev_vout, seq, wit) ==
    [previous_output |-> [txid |-> prev_txid, vout |-> prev_vout],
     script_sig |-> 0, sequence |-> seq, witness |-> wit]

\* a TxIn with a signature script of its own
TxInSig(prev_txid, prev_vout, sig, seq, wit) ==
    [TxIn(prev_txid, prev_vout, seq, wit) EXCEPT !.script_sig = sig]

\* TxIn::consensus_encode: outpoint, script_sig, sequence; never the witness
EncodeTxIn(i) ==
    <<i.previous_output.txid, i.previous_output.vout, i.script_sig, i.sequence>>

RECURSIVE EncodeInputs(_)
EncodeInputs(inputs) ==
    IF inputs = <<>> THEN <<>>
    ELSE EncodeTxIn(Head(inputs)) \o EncodeInputs(Tail(inputs))

\* utils.rs get_inputs_hash: hex(sha256(concatenated encodings)), a TEXT value
get_inputs_hash(inputs) == <<"text", EncodeInputs(inputs)>>

\* Transaction::compute_txid: hash of the serialization without witnesses
compute_txid(tx) == <<EncodeInputs(tx.input), tx.output>>

\* the raw 32 bytes of a txid, a BLOB value
txid_bytes(tx) == <<"blob", compute_txid(tx)>>

is_coinbase(tx) ==
    /\ Len(tx.input) = 1
    /\ tx.input[1].previous_output.txid = NullTxid
    /\ tx.input[1].previous_output.vout = NullVout

\* utils.rs prune_large_witnesses: clear the witness of every input
prune_large_witnesses(tx) ==
    [tx EXCEPT !.input = [k \in 1..Len(tx.input) |-> [tx.input[k] EXCEPT !.witness = 0]]]

\* Transaction::consensus_encode / consensus_decode
consensus_encode(tx) == <<tx.input, tx.output>>
consensus_decode(bytes) ==
    IF Len(bytes) = 2
    THEN [ok |-> TRUE, tx |-> [input |-> bytes[1], output |-> bytes[2]]]
    ELSE [ok |-> FALSE, tx |-> [input |-> <<>>, output |-> 0]]

\* the transactions the node can publish
TxX  == [input |-> <<TxIn(ExtTxid, 0, 1, 1)>>, output |-> 1]
\* fee bump of TxX: same outpoint, script and sequence; other output and witness
TxX2 == [input |-> <<TxIn(ExtTxid, 0, 1, 2)>>, output |-> 2]
\* child of TxX
TxY  == [input |-> <<TxIn(compute_txid(TxX), 0, 1, 1)>>, output |-> 1]
TxCB == [input |-> <<TxIn(NullTxid, NullVout, 1, 1)>>, output |-> 1]

PoolTxs == {TxX, TxX2, TxY}
\* what the event stream delivers: transaction bytes (TxX itself is already in
\* the pool at start-up), or bytes that do not decode
StreamTxs == {TxX2, TxCB}
Garbage == <<>>
RawBytes == {consensus_encode(t) : t \in StreamTxs} \cup {Garbage}
\* fees.base answered by get_mempool_entry
Fees == {1, 2}

\* a mempool never holds two transactions spending the same outpoint
Conflict(a, b) ==
    a # b /\ \E i \in 1..Len(a.input), j \in 1..Len(b.input) :
                a.input[i].previous_output = b.input[j].previous_output
Mempools == {m \in SUBSET PoolTxs : \A a \in m, b \in m : ~Conflict(a, b)}
\* the mempools the node may hold when the monitor starts
StartupMempools == SUBSET {TxX, TxY}

NoTx == [input |-> <<>>, output |-> 0]

\* ------------------------------------------------------ the store (SQL)
\* a row of table transactions: inputs_hash is the PRIMARY KEY
Row(key, tx_id, tx_data, found_at, mined_at, pruned_at) ==
    [inputs_hash |-> key, tx_id |-> tx_id, tx_data |-> tx_data,
     found_at |-> found_at, mined_at |-> mined_at, pruned_at |-> pruned_at,
     parent_txid |-> NULL]

\* INSERT OR REPLACE without the REPLACE: keeps the row that holds the key
InsertKeepingOld(table, row) == table \cup {row}

\* INSERT OR REPLACE: a row holding the same primary key is deleted first
InsertOrReplace(table, row) ==
    {r \in table : r.inputs_hash # row.inputs_hash} \cup {row}

\* TransactionInner::new / the timestamps of insert_mempool_tx
\* (Option<SystemTime>: None is <<>>, Some(t) is <<t>>)
None == <<>>
Some(t) == <<t>>
FoundAtSecs(found_at) == IF found_at = None THEN UNIX_EPOCH ELSE found_at[1]

\* insert_mempool_tx, loop body: SELECT COUNT(*) ... WHERE tx_id = parent  > 0
has_parent(table, tx, k) ==
    \E r \in table : r.tx_id = <<"blob", tx.input[k].previous_output.txid>>

\* insert_mempool_tx, loop body: UPDATE ... SET parent_txid WHERE tx_id = parent
\* (run when the SELECT COUNT before it found a row; it matches the same rows)
link_parent(table, tx, k) ==
    LET parent == <<"blob", tx.input[k].previous_output.txid>>
    IN  {IF r.tx_id = parent THEN [r EXCEPT !.parent_txid = txid_bytes(tx)] ELSE r
           : r \in table}

RECURSIVE link_parents(_, _, _)
link_parents(table, tx, k) ==
    IF k > Len(tx.input) THEN table
    ELSE link_parents(link_parent(table, tx, k), tx, k + 1)

\* insert_mempool_tx, final statement
insert_row(table, tx, found_at) ==
    InsertOrReplace(table,
        Row(get_inputs_hash(tx.input), txid_bytes(tx), consensus_encode(tx),
            FoundAtSecs(found_at), UNIX_EPOCH, UNIX_EPOCH))

\* insert_mempool_tx as one call (the backfill runs it with no worker alive)
insert_mempool_tx(table, tx, found_at) ==
    insert_row(link_parents(table, tx, 1), tx, found_at)

\* record_coinbase_tx: key and tx_id are the txid; mined_at is UNIX_EPOCH
record_coinbase_tx(table, tx, t) ==
    IF ~is_coinbase(tx) THEN table
    ELSE InsertOrReplace(table,
            Row(txid_bytes(tx), txid_bytes(tx), consensus_encode(tx),
                t, UNIX_EPOCH, UNIX_EPOCH))

\* record_mined_tx rewriting the whole row as an insert does
RecordMinedResettingFound(table, tx, t) ==
    LET stripped == prune_large_witnesses(tx)
        h == get_inputs_hash(stripped.input)
    IN  {IF r.inputs_hash = h
         THEN [r EXCEPT !.mined_at = t, !.found_at = UNIX_EPOCH,
                        !.tx_data = consensus_encode(stripped)]
         ELSE r : r \in table}

\* record_mined_tx: UPDATE ... SET mined_at, tx_data WHERE inputs_hash = ?
record_mined_tx(table, tx, t) ==
    LET stripped == prune_large_witnesses(tx)
        h == get_inputs_hash(stripped.input)
    IN  {IF r.inputs_hash = h
         THEN [r EXCEPT !.mined_at = t, !.tx_data = consensus_encode(stripped)]
         ELSE r : r \in table}

\* record_mined_tx: conn.execute(..)? drops the number of rows updated; Ok(())
record_mined_tx_ret(table, tx) == "Ok"

\* tx_exists: SELECT COUNT(*) ... WHERE inputs_hash = ?  > 0
tx_exists(table, tx) ==
    \E r \in table : r.inputs_hash = get_inputs_hash(tx.input)

\* bincode bytes of a TransactionInner: the bytes of its inner transaction
\* followed by its pruned_at (found_at, mined_at and rbf_inner are never set
\* to anything but their defaults)
is_bincode(bytes) == Len(bytes) = 4

\* bincode::deserialize::<TransactionInner>(tx_data): bytes that
\* bincode::serialize wrote are read back; on consensus-encoded bytes, which is
\* what every other function writes to tx_data, the answer depends on the bytes
\* (decodes: whether they happen to read as a TransactionInner)
bincode_deserialize_ok(bytes, decodes) == is_bincode(bytes) \/ decodes

\* tx_inner.pruned_at = SystemTime::now(); bincode::serialize(&tx_inner)
with_pruned_at(bytes, t) ==
    IF is_bincode(bytes) THEN [bytes EXCEPT ![4] = t]
    ELSE bytes \o <<"pruned_at", t>>

\* record_pruned_tx: query_row(SELECT tx_data ...)? is Err when no row holds
\* the key, bincode::deserialize(..)? is Err when the bytes do not decode
record_pruned_tx_ret(table, tx, decodes) ==
    IF ~tx_exists(table, tx) THEN "Err"
    ELSE IF \A r \in table :
               r.inputs_hash = get_inputs_hash(tx.input)
                 => bincode_deserialize_ok(r.tx_data, decodes)
         THEN "Ok"
         ELSE "Err"

\* record_pruned_tx: UPDATE transactions SET tx_data WHERE inputs_hash = ?,
\* the column pruned_at is not written
record_pruned_tx(table, tx, t, decodes) ==
    IF record_pruned_tx_ret(table, tx, decodes) # "Ok" THEN table
    ELSE {IF r.inputs_hash = get_inputs_hash(tx.input)
          THEN [r EXCEPT !.tx_data = with_pruned_at(r.tx_data, t)]
          ELSE r : r \in table}

\* record_rbf whose INSERT is lost: the table stays as it was
RecordRbfNoRow(events, tx, fee_total, t) == events

\* record_rbf: INSERT OR REPLACE INTO rbf, inputs_hash is the PRIMARY KEY
record_rbf(events, tx, fee_total, t) ==
    LET h == get_inputs_hash(tx.input)
    IN  {e \in events : e.inputs_hash # h}
          \cup {[inputs_hash |-> h, created_at |-> t, fee_total |-> fee_total]}

\* record_rbf: conn.execute(..)?; Ok(())
record_rbf_ret(events, tx) == "Ok"

\* update_txid_by_inputs_hash (not in src/): the record takes the id and the
\* witness-stripped bytes of the replacing transaction
update_txid_by_inputs_hash(table, tx) ==
    LET h == get_inputs_hash(tx.input)
    IN  {IF r.inputs_hash = h
         THEN [r EXCEPT !.tx_id = txid_bytes(tx),
                        !.tx_data = consensus_encode(prune_large_witnesses(tx))]
         ELSE r : r \in table}

Outstanding(r) == r.mined_at = UNIX_EPOCH /\ r.pruned_at = UNIX_EPOCH

\* txids_of_txs_not_in_list (not in src/): ids of the outstanding records
\* that are absent from the given list
txids_of_txs_not_in_list(table, txids) ==
    {r.tx_id : r \in {q \in table : Outstanding(q) /\ q.tx_id \notin txids}}

\* record_pruned_txs (not in src/): one UPDATE over the outstanding records
\* whose tx_id is in the list
record_pruned_txs(table, ids, t) ==
    {IF r.tx_id \in ids /\ Outstanding(r) THEN [r EXCEPT !.pruned_at = t] ELSE r
       : r \in table}

\* record_mempool_state (not in src/): appends one snapshot row
record_mempool_state(rows, t) == Append(rows, [recorded_at |-> t])

\* ---------------------------------------------------------------- state
VARIABLES
    app,            \* position of App: "init", "backfill", "run", "failed"
    mempool,        \* backfill: entries of get_raw_mempool_verbose still to insert
    transactions,   \* table transactions
    rbf,            \* table rbf
    snapshots,      \* mempool snapshot rows
    queue,          \* the bounded channel
    sent,           \* number of completed sends
    now,            \* SystemTime::now() in seconds
    pc,             \* per worker: position in TaskContext::run
    result,         \* per worker: "none" (not spawned), "run", "Ok", "Err",
                    \* "cancelled" (dropped while suspended in recv)
    tx,             \* per worker: the decoded transaction
    is_mined,       \* per worker
    fee,            \* per worker
    txids,          \* per worker: result of get_raw_mempool
    pruned_txids,   \* per worker: result of txids_of_txs_not_in_list
    input_i,        \* per worker: insert_mempool_tx, index of the input loop
    clock,          \* per worker: `now` when it came to a store function that
                    \* reads the clock (0 elsewhere)
    unflushed,      \* per worker: it has written to the store since its last flush()
    closed,         \* the channel is closed (every Sender dropped: the process
                    \* was shut down)
    ret             \* value returned by the last direct call of a function

store == <<transactions, rbf, snapshots>>
locals == <<tx, is_mined, fee, txids, pruned_txids, input_i, clock>>
vars == <<app, mempool, transactions, rbf, snapshots, queue, sent, now,
          pc, result, tx, is_mined, fee, txids, pruned_txids, input_i, clock,
          unflushed, closed, ret>>

Task(kind, bytes) == [kind |-> kind, bytes |-> bytes]
Tasks == {Task("RawTx", b) : b \in RawBytes}
           \cup {Task("PruneCheck", <<>>), Task("MempoolState", <<>>)}

\* tasks that need no decoded transaction
QueueTasks == {Task("RawTx", Garbage), Task("PruneCheck", <<>>),
               Task("MempoolState", <<>>)}

\* a direct call: the function, its arguments, what it returned
Call(op, t, arg, value) == [op |-> op, tx |-> t, arg |-> arg, value |-> value]
NoCall == Call("none", NoTx, <<>>, "none")

Init ==
    /\ app = "init"
    /\ mempool = {}
    /\ transactions = {}
    /\ rbf = {}
    /\ snapshots = <<>>
    /\ queue = <<>>
    /\ sent = 0
    /\ now = 1
    /\ pc = [w \in Workers |-> "recv"]
    /\ result = [w \in Workers |-> "none"]
    /\ tx = [w \in Workers |-> NoTx]
    /\ is_mined = [w \in Workers |-> FALSE]
    /\ fee = [w \in Workers |-> 0]
    /\ txids = [w \in Workers |-> {}]
    /\ pruned_txids = [w \in Workers |-> {}]
    /\ input_i = [w \in Workers |-> 0]
    /\ clock = [w \in Workers |-> 0]
    /\ unflushed = [w \in Workers |-> FALSE]
    /\ closed = FALSE
    /\ ret = NoCall

\* the wall clock advances
Tick ==
    /\ now < MaxTime
    /\ now' = now + 1
    /\ UNCHANGED <<app, mempool, store, queue, sent, closed, ret, pc, result, locals>>
    /\ UNCHANGED unflushed

\* ------------------------------------------------------- App (app.rs)
\* extract_existing_mempool: get_raw_mempool_verbose()?
BackfillList ==
    /\ app = "init"
    /\ \/ \E m \in StartupMempools :
            /\ mempool' = {[tx |-> t, time |-> 1] : t \in m}
            /\ app' = "backfill"
       \/ /\ app' = "failed"
          /\ UNCHANGED mempool
    /\ UNCHANGED <<store, queue, sent, closed, ret, now, pc, result, locals>>
    /\ UNCHANGED unflushed

\* a backfill in one transaction: a failure rolls back what it inserted
BackfillInsertRollingBack ==
    /\ app = "backfill"
    /\ \E e \in mempool :
         \/ /\ transactions' = insert_mempool_tx(transactions, e.tx, Some(e.time))
            /\ mempool' = mempool \ {e}
            /\ UNCHANGED app
         \/ /\ app' = "failed"
            /\ transactions' = {}
            /\ UNCHANGED mempool
    /\ UNCHANGED <<rbf, snapshots, queue, sent, closed, ret, now, pc, result, locals>>
    /\ UNCHANGED unflushed

\* extract_existing_mempool, loop body: get_raw_transaction_info(txid)?
\* then insert_mempool_tx(tx, Some(found_at))?; the insert may fail before its
\* first statement or, the parent links written, at its INSERT
BackfillInsert ==
    /\ app = "backfill"
    /\ \E e \in mempool :
         \/ /\ transactions' = insert_mempool_tx(transactions, e.tx, Some(e.time))
            /\ mempool' = mempool \ {e}
            /\ UNCHANGED app
         \/ /\ app' = "failed"
            /\ UNCHANGED <<transactions, mempool>>
         \/ /\ app' = "failed"
            /\ transactions' = link_parents(transactions, e.tx, 1)
            /\ UNCHANGED mempool
    /\ UNCHANGED <<rbf, snapshots, queue, sent, closed, ret, now, pc, result, locals>>
    /\ UNCHANGED unflushed

\* the worker the spawn loop of init comes to next
NextSpawn == CHOOSE w \in Workers : result[w] = "none" /\ \A v \in 1..(w - 1) : result[v] # "none"

\* a spawn loop that does not wait for the backfill loop to finish
SpawnWorkersEarly ==
    /\ app = "backfill"
    /\ \/ /\ result' = [result EXCEPT ![NextSpawn] = "run"]
          /\ app' = IF NextSpawn = NUM_WORKERS THEN "run" ELSE app
       \/ /\ app' = "failed"
          /\ UNCHANGED result
    /\ UNCHANGED <<mempool, store, queue, sent, closed, ret, now, pc, locals>>
    /\ UNCHANGED unflushed

\* init, one pass of the loop over 0..NUM_WORKERS: connect_bitcoind(..)?, then
\* the worker is spawned; init returns Ok after the last pass. A worker spawned
\* by an earlier pass stays when a later connect fails.
SpawnWorkers ==
    /\ app = "backfill"
    /\ mempool = {}
    /\ \/ /\ result' = [result EXCEPT ![NextSpawn] = "run"]
          /\ app' = IF NextSpawn = NUM_WORKERS THEN "run" ELSE app
       \/ /\ app' = "failed"
          /\ UNCHANGED result
    /\ UNCHANGED <<mempool, store, queue, sent, closed, ret, now, pc, locals>>
    /\ UNCHANGED unflushed

\* a channel that drops the task when it is full instead of suspending the sender
SendOfDropping(S, n) ==
    /\ app = "run"
    /\ ~closed
    /\ sent < n
    /\ \E t \in S :
         queue' = IF Len(queue) < QueueCap THEN Append(queue, t) ELSE queue
    /\ sent' = sent + 1
    /\ UNCHANGED <<app, mempool, store, now, pc, result, locals>>
    /\ UNCHANGED <<unflushed, closed, ret>>

\* run: a producer's send of a task of S completes (it suspends while the
\* queue is full); n bounds the number of sends
SendOf(S, n) ==
    /\ app = "run"
    /\ ~closed
    /\ sent < n
    /\ Len(queue) < QueueCap
    /\ \E t \in S : queue' = Append(queue, t)
    /\ sent' = sent + 1
    /\ UNCHANGED <<app, mempool, store, now, pc, result, locals>>
    /\ UNCHANGED <<unflushed, closed, ret>>

\* the three producers of App::run
Send == SendOf(Tasks, MaxTasks)

\* the same producers over a longer run
SendLong == SendOf(Tasks, MaxTasksLong)

\* the two tickers, and an event stream whose messages do not decode
SendQueue == SendOf(QueueTasks, MaxTasksLong)

\* ------------------------------------------- TaskContext::run (worker.rs)
\* A step of a worker is one access to shared state (the queue, a table or the
\* connection pool) together with the worker-local computation and node RPC
\* calls that follow it up to the next access; the node and the store answer
\* every call arbitrarily with Ok or Err.
At(w, l) == result[w] = "run" /\ pc[w] = l

Goto(w, l) == pc' = [pc EXCEPT ![w] = l]

\* a statement that changes a table leaves the write pending until flush()
Write(w) == unflushed' = [unflushed EXCEPT ![w] = TRUE]

\* conn.cache_flush()
Flush(w) == unflushed' = [unflushed EXCEPT ![w] = FALSE]

\* the worker is about to call a store function that reads SystemTime::now()
\* before its statement runs: the value read is not older than this step
EnterClocked(w) == clock' = [clock EXCEPT ![w] = now]

\* the values SystemTime::now() may have given the function that worker w is
\* in: read after its previous step, before the statement of this step
ClockRead(w) == clock[w]..now

\* the locals of the match arm go out of scope
DropLocals(w) ==
    /\ tx' = [tx EXCEPT ![w] = NoTx]
    /\ is_mined' = [is_mined EXCEPT ![w] = FALSE]
    /\ fee' = [fee EXCEPT ![w] = 0]
    /\ txids' = [txids EXCEPT ![w] = {}]
    /\ pruned_txids' = [pruned_txids EXCEPT ![w] = {}]
    /\ input_i' = [input_i EXCEPT ![w] = 0]
    /\ clock' = [clock EXCEPT ![w] = 0]

\* `continue` / end of the match arm: back to recv
NextTask(w) ==
    /\ Goto(w, "recv")
    /\ DropLocals(w)

\* the last statement of the arm is done, self.db.flush() is next
ToFlush(w, l) ==
    /\ Goto(w, l)
    /\ DropLocals(w)

\* `?` on an Err: run returns the error and the worker is gone; pc names what
\* failed: "consensus_decode", "get_mempool_info" (a node call of MempoolState)
\* or "store" (a call of the store)
ReturnErr(w, l) ==
    /\ result' = [result EXCEPT ![w] = "Err"]
    /\ Goto(w, l)
    /\ DropLocals(w)

\* Task::MempoolState: get_mempool_info()?, get_block_count()?,
\* get_block_hash(block_height)?
StartMempoolState(w) ==
    \/ /\ Goto(w, "record_mempool_state")
       /\ UNCHANGED <<result, locals>>
    \/ ReturnErr(w, "get_mempool_info")

\* Task::PruneCheck: log_error!(Self::check_for_pruned_txs, self)
StartPruneCheck(w) ==
    /\ Goto(w, "check_for_pruned_txs")
    /\ UNCHANGED <<result, locals>>

\* Task::RawTx(raw_tx): consensus_decode(..)?, is_coinbase(),
\* get_raw_transaction_info(&txid, None) (Err => continue),
\* is_mined = confirmations.unwrap_or(0) > 0
StartRawTx(w, bytes) ==
    LET d == consensus_decode(bytes)
    IN  IF ~d.ok THEN ReturnErr(w, "consensus_decode")
        ELSE IF is_coinbase(d.tx)
        THEN /\ tx' = [tx EXCEPT ![w] = d.tx]
             /\ Goto(w, "record_coinbase_tx")
             /\ EnterClocked(w)
             /\ UNCHANGED <<result, is_mined, fee, txids, pruned_txids, input_i>>
        ELSE \/ \E confirmations \in {0, 1} :
                  /\ tx' = [tx EXCEPT ![w] = d.tx]
                  /\ is_mined' = [is_mined EXCEPT ![w] = confirmations > 0]
                  /\ Goto(w, "tx_exists")
                  /\ UNCHANGED <<result, fee, txids, pruned_txids, input_i, clock>>
             \/ /\ UNCHANGED <<pc, result, locals>>

\* a receive that takes the newest task of the channel
RecvLast(w) ==
    /\ At(w, "recv")
    /\ queue # <<>>
    /\ queue' = SubSeq(queue, 1, Len(queue) - 1)
    /\ LET t == queue[Len(queue)]
       IN  CASE t.kind = "MempoolState" -> StartMempoolState(w)
             [] t.kind = "PruneCheck" -> StartPruneCheck(w)
             [] OTHER -> StartRawTx(w, t.bytes)
    /\ UNCHANGED <<app, mempool, store, sent, closed, ret, now>>
    /\ UNCHANGED unflushed

\* while let Ok(task) = self.tasks.recv().await { match task {
Recv(w) ==
    /\ At(w, "recv")
    /\ queue # <<>>
    /\ queue' = Tail(queue)
    /\ LET t == Head(queue)
       IN  CASE t.kind = "MempoolState" -> StartMempoolState(w)
             [] t.kind = "PruneCheck" -> StartPruneCheck(w)
             [] OTHER -> StartRawTx(w, t.bytes)
    /\ UNCHANGED <<app, mempool, store, sent, closed, ret, now>>
    /\ UNCHANGED unflushed

\* if let Err(e) = record_mempool_state(..) { error!(..); continue }
\* and the arm ends: no flush on either way
RecordMempoolState(w) ==
    /\ At(w, "record_mempool_state")
    /\ \/ /\ snapshots' = record_mempool_state(snapshots, now)
          /\ Write(w)
       \/ UNCHANGED <<snapshots, unflushed>>
    /\ NextTask(w)
    /\ UNCHANGED <<app, mempool, transactions, rbf, queue, sent, closed, ret, now, result>>

\* check_for_pruned_txs: get_raw_mempool()?, txids_of_txs_not_in_list(txids)?
\* (log_error!: an Err of either is logged and the loop goes on)
TxidsNotInList(w) ==
    /\ At(w, "check_for_pruned_txs")
    /\ \/ \E m \in Mempools :
            LET ids == {txid_bytes(t) : t \in m}
            IN  /\ txids' = [txids EXCEPT ![w] = ids]
                /\ pruned_txids' = [pruned_txids EXCEPT ![w] =
                                       txids_of_txs_not_in_list(transactions, ids)]
                /\ Goto(w, "record_pruned_txs")
                /\ UNCHANGED <<tx, is_mined, fee, input_i, clock>>
       \/ NextTask(w)
    /\ UNCHANGED <<app, mempool, store, queue, sent, closed, ret, now, result>>
    /\ UNCHANGED unflushed

\* check_for_pruned_txs handing the polled mempool itself to record_pruned_txs
RecordPrunedTxsOfPolled(w) ==
    /\ At(w, "record_pruned_txs")
    /\ \/ /\ transactions' = record_pruned_txs(transactions, txids[w], now)
          /\ ToFlush(w, "check_for_pruned_txs.flush")
          /\ Write(w)
       \/ /\ NextTask(w)
          /\ UNCHANGED <<transactions, unflushed>>
    /\ UNCHANGED <<app, mempool, rbf, snapshots, queue, sent, closed, ret, now, result>>

\* check_for_pruned_txs: record_pruned_txs(pruned_txids)? (Err: logged, the
\* loop goes on)
RecordPrunedTxs(w) ==
    /\ At(w, "record_pruned_txs")
    /\ \/ /\ transactions' = record_pruned_txs(transactions, pruned_txids[w], now)
          /\ ToFlush(w, "check_for_pruned_txs.flush")
          /\ Write(w)
       \/ /\ NextTask(w)
          /\ UNCHANGED <<transactions, unflushed>>
    /\ UNCHANGED <<app, mempool, rbf, snapshots, queue, sent, closed, ret, now, result>>

\* record_coinbase_tx(&tx)?
RecordCoinbaseTx(w) ==
    /\ At(w, "record_coinbase_tx")
    /\ \/ /\ \E t \in ClockRead(w) :
               transactions' = record_coinbase_tx(transactions, tx[w], t)
          /\ ToFlush(w, "flush")
          /\ Write(w)
          /\ UNCHANGED result
       \/ /\ ReturnErr(w, "store")
          /\ UNCHANGED <<transactions, unflushed>>
    /\ UNCHANGED <<app, mempool, rbf, snapshots, queue, sent, closed, ret, now>>

\* the dispatch without the is_mined test: every known transaction is a replacement
TxExistsIgnoringMined(w) ==
    /\ At(w, "tx_exists")
    /\ \/ /\ IF tx_exists(transactions, tx[w])
             THEN \/ \E f \in Fees :
                       /\ fee' = [fee EXCEPT ![w] = f]
                       /\ Goto(w, "record_rbf")
                       /\ EnterClocked(w)
                       /\ UNCHANGED <<tx, is_mined, txids, pruned_txids, input_i>>
                  \/ NextTask(w)
             ELSE /\ Goto(w, "insert_mempool_tx")
                  /\ input_i' = [input_i EXCEPT ![w] = 1]
                  /\ UNCHANGED <<tx, is_mined, fee, txids, pruned_txids, clock>>
          /\ UNCHANGED result
       \/ ReturnErr(w, "store")
    /\ UNCHANGED <<app, mempool, store, queue, sent, closed, ret, now>>
    /\ UNCHANGED unflushed

\* if self.db.tx_exists(&tx)? { if is_mined {..} else { get_transaction_fee
\* (get_mempool_entry; Err => continue) .. } } ; else insert_mempool_tx
TxExists(w) ==
    /\ At(w, "tx_exists")
    /\ \/ /\ IF tx_exists(transactions, tx[w])
             THEN IF is_mined[w]
                  THEN /\ Goto(w, "record_mined_tx")
                       /\ EnterClocked(w)
                       /\ UNCHANGED <<tx, is_mined, fee, txids, pruned_txids, input_i>>
                  ELSE \/ \E f \in Fees :
                            /\ fee' = [fee EXCEPT ![w] = f]
                            /\ Goto(w, "record_rbf")
                            /\ EnterClocked(w)
                            /\ UNCHANGED <<tx, is_mined, txids, pruned_txids, input_i>>
                       \/ NextTask(w)
             ELSE /\ Goto(w, "insert_mempool_tx")
                  /\ input_i' = [input_i EXCEPT ![w] = 1]
                  /\ UNCHANGED <<tx, is_mined, fee, txids, pruned_txids, clock>>
          /\ UNCHANGED result
       \/ ReturnErr(w, "store")
    /\ UNCHANGED <<app, mempool, store, queue, sent, closed, ret, now>>
    /\ UNCHANGED unflushed

\* record_mined_tx(&tx)?
RecordMinedTx(w) ==
    /\ At(w, "record_mined_tx")
    /\ \/ /\ \E t \in ClockRead(w) :
               transactions' = record_mined_tx(transactions, tx[w], t)
          /\ ToFlush(w, "flush")
          /\ Write(w)
          /\ UNCHANGED result
       \/ /\ ReturnErr(w, "store")
          /\ UNCHANGED <<transactions, unflushed>>
    /\ UNCHANGED <<app, mempool, rbf, snapshots, queue, sent, closed, ret, now>>

\* record_rbf(&tx, fee.to_sat())?
RecordRbf(w) ==
    /\ At(w, "record_rbf")
    /\ \/ /\ \E t \in ClockRead(w) : rbf' = record_rbf(rbf, tx[w], fee[w], t)
          /\ Goto(w, "update_txid_by_inputs_hash")
          /\ clock' = [clock EXCEPT ![w] = 0]
          /\ Write(w)
          /\ UNCHANGED <<result, tx, is_mined, fee, txids, pruned_txids, input_i>>
       \/ /\ ReturnErr(w, "store")
          /\ UNCHANGED <<rbf, unflushed>>
    /\ UNCHANGED <<app, mempool, transactions, snapshots, queue, sent, closed, ret, now>>

\* update_txid_by_inputs_hash(&tx)?
UpdateTxid(w) ==
    /\ At(w, "update_txid_by_inputs_hash")
    /\ \/ /\ transactions' = update_txid_by_inputs_hash(transactions, tx[w])
          /\ ToFlush(w, "flush")
          /\ Write(w)
          /\ UNCHANGED result
       \/ /\ ReturnErr(w, "store")
          /\ UNCHANGED <<transactions, unflushed>>
    /\ UNCHANGED <<app, mempool, rbf, snapshots, queue, sent, closed, ret, now>>

\* insert_mempool_tx(tx, None)?, one statement of `for input in tx.input.iter()`:
\* at "insert_mempool_tx" the SELECT COUNT(*) .. WHERE tx_id = parent, and when
\* it counts a row, at "insert_mempool_tx.update" the UPDATE .. SET parent_txid
InsertLink(w) ==
    /\ result[w] = "run"
    /\ pc[w] \in {"insert_mempool_tx", "insert_mempool_tx.update"}
    /\ input_i[w] <= Len(tx[w].input)
    /\ IF pc[w] = "insert_mempool_tx"
       THEN \/ /\ IF has_parent(transactions, tx[w], input_i[w])
                  THEN /\ Goto(w, "insert_mempool_tx.update")
                       /\ UNCHANGED input_i
                  ELSE /\ input_i' = [input_i EXCEPT ![w] = @ + 1]
                       /\ UNCHANGED pc
               /\ UNCHANGED <<result, tx, is_mined, fee, txids, pruned_txids, clock>>
               /\ UNCHANGED <<transactions, unflushed>>
            \/ /\ ReturnErr(w, "store")
               /\ UNCHANGED <<transactions, unflushed>>
       ELSE \/ /\ transactions' = link_parent(transactions, tx[w], input_i[w])
               /\ input_i' = [input_i EXCEPT ![w] = @ + 1]
               /\ Goto(w, "insert_mempool_tx")
               /\ Write(w)
               /\ UNCHANGED <<result, tx, is_mined, fee, txids, pruned_txids, clock>>
            \/ /\ ReturnErr(w, "store")
               /\ UNCHANGED <<transactions, unflushed>>
    /\ UNCHANGED <<app, mempool, rbf, snapshots, queue, sent, closed, ret, now>>

\* insert_mempool_tx(tx, None)?: the INSERT OR REPLACE
InsertRow(w) ==
    /\ At(w, "insert_mempool_tx")
    /\ input_i[w] > Len(tx[w].input)
    /\ \/ /\ transactions' = insert_row(transactions, tx[w], None)
          /\ ToFlush(w, "flush")
          /\ Write(w)
          /\ UNCHANGED result
       \/ /\ ReturnErr(w, "store")
          /\ UNCHANGED <<transactions, unflushed>>
    /\ UNCHANGED <<app, mempool, rbf, snapshots, queue, sent, closed, ret, now>>

\* self.db.flush(): `?` in the RawTx arm, logged by log_error! in
\* check_for_pruned_txs; either way the arm is over
DbFlush(w) ==
    /\ result[w] = "run"
    /\ pc[w] \in {"flush", "check_for_pruned_txs.flush"}
    /\ \/ /\ Flush(w)
          /\ NextTask(w)
          /\ UNCHANGED result
       \/ /\ IF pc[w] = "flush"
             THEN ReturnErr(w, "store")
             ELSE NextTask(w) /\ UNCHANGED result
          /\ UNCHANGED unflushed
    /\ UNCHANGED <<app, mempool, store, queue, sent, closed, ret, now>>

Worker(w) ==
    \/ Recv(w) \/ RecordMempoolState(w)
    \/ TxidsNotInList(w) \/ RecordPrunedTxs(w)
    \/ RecordCoinbaseTx(w) \/ TxExists(w) \/ RecordMinedTx(w)
    \/ RecordRbf(w) \/ UpdateTxid(w) \/ InsertLink(w) \/ InsertRow(w)
    \/ DbFlush(w)

Next ==
    \/ Tick
    \/ BackfillList \/ BackfillInsert \/ SpawnWorkers \/ Send
    \/ \E w \in Workers : Worker(w)

Spec == Init /\ [][Next]_vars

\* the program over runs of MaxTasksLong tasks
LongNext ==
    \/ Tick
    \/ BackfillList \/ BackfillInsert \/ SpawnWorkers \/ SendLong
    \/ \E w \in Workers : Worker(w)

SpecLong == Init /\ [][LongNext]_vars

\* the program fed with QueueTasks only: the queue, the two ticker arms and
\* the decode failure
QueueNext ==
    \/ Tick
    \/ BackfillList \/ BackfillInsert \/ SpawnWorkers \/ SendQueue
    \/ \E w \in Workers :
          \/ Recv(w) \/ RecordMempoolState(w)
          \/ TxidsNotInList(w) \/ RecordPrunedTxs(w) \/ DbFlush(w)

SpecQueue == Init /\ [][QueueNext]_vars

\* ------------------------------------------------------- shutdown
\* the process is shut down by the caller of App (not in src/: App::run drops
\* no Sender, App keeps tasks_tx and the detached tickers keep their clones):
\* App and the runtime are dropped, which ends the producers and closes the
\* queue; what is queued stays receivable. A worker suspended in recv().await
\* is dropped with the runtime and never returns; a running worker goes on.
Close ==
    /\ app = "run"
    /\ ~closed
    /\ closed' = TRUE
    /\ \E S \in SUBSET {w \in Workers : At(w, "recv")} :
         result' = [w \in Workers |-> IF w \in S THEN "cancelled" ELSE result[w]]
    /\ UNCHANGED <<app, mempool, store, queue, sent, now, pc, locals>>
    /\ UNCHANGED <<unflushed, ret>>

\* a worker that was running at the shutdown finds the queue empty before the
\* last Sender is gone: recv().await suspends and the worker is dropped
Cancel(w) ==
    /\ At(w, "recv")
    /\ closed
    /\ queue = <<>>
    /\ result' = [result EXCEPT ![w] = "cancelled"]
    /\ UNCHANGED <<app, mempool, store, queue, sent, now, pc, locals>>
    /\ UNCHANGED <<unflushed, closed, ret>>

\* recv() on a closed and empty queue is Err: the while let loop ends,
\* info!("Worker shutting down"); Ok(())
WorkerExit(w) ==
    /\ At(w, "recv")
    /\ closed
    /\ queue = <<>>
    /\ result' = [result EXCEPT ![w] = "Ok"]
    /\ UNCHANGED <<app, mempool, store, queue, sent, now, pc, locals>>
    /\ UNCHANGED <<unflushed, closed, ret>>

ShutdownNext ==
    \/ LongNext
    \/ Close
    \/ \E w \in Workers : Cancel(w)
    \/ \E w \in Workers : WorkerExit(w)

SpecShutdown == Init /\ [][ShutdownNext]_vars

\* ------------------------------------------- the store called directly
\* Database::new on a fresh file, then any sequence of calls of the functions
\* of database.rs by one caller
StoreTxs == {TxX, TxX2}
FoundArgs == {None} \cup {Some(t) : t \in 1..MaxTime}

StoreInit ==
    /\ app = "store"
    /\ mempool = {}
    /\ transactions = {}
    /\ rbf = {}
    /\ snapshots = <<>>
    /\ queue = <<>>
    /\ sent = 0
    /\ now = 1
    /\ pc = [w \in Workers |-> "recv"]
    /\ result = [w \in Workers |-> "none"]
    /\ tx = [w \in Workers |-> NoTx]
    /\ is_mined = [w \in Workers |-> FALSE]
    /\ fee = [w \in Workers |-> 0]
    /\ txids = [w \in Workers |-> {}]
    /\ pruned_txids = [w \in Workers |-> {}]
    /\ input_i = [w \in Workers |-> 0]
    /\ clock = [w \in Workers |-> 0]
    /\ unflushed = [w \in Workers |-> FALSE]
    /\ closed = FALSE
    /\ ret = NoCall

\* db.insert_mempool_tx(tx, found_at)
CallInsertMempoolTx ==
    /\ app = "store"
    /\ \E t \in StoreTxs, f \in FoundArgs :
         /\ (IF f = None THEN TRUE ELSE f[1] <= now)
         /\ transactions' = insert_mempool_tx(transactions, t, f)
         /\ ret' = Call("insert_mempool_tx", t, f, "Ok")
    /\ UNCHANGED <<app, mempool, rbf, snapshots, queue, sent, now, pc, result,
                   locals, unflushed, closed>>

\* db.record_mined_tx(&tx)
CallRecordMinedTx ==
    /\ app = "store"
    /\ \E t \in StoreTxs :
         /\ transactions' = record_mined_tx(transactions, t, now)
         /\ ret' = Call("record_mined_tx", t, <<>>, record_mined_tx_ret(transactions, t))
    /\ UNCHANGED <<app, mempool, rbf, snapshots, queue, sent, now, pc, result,
                   locals, unflushed, closed>>

\* db.record_rbf(tx, fee_total)
CallRecordRbf ==
    /\ app = "store"
    /\ \E t \in StoreTxs, f \in Fees :
         /\ rbf' = record_rbf(rbf, t, f, now)
         /\ ret' = Call("record_rbf", t, <<f>>, record_rbf_ret(rbf, t))
    /\ UNCHANGED <<app, mempool, transactions, snapshots, queue, sent, now, pc,
                   result, locals, unflushed, closed>>

\* db.record_coinbase_tx(tx, mempool_size, mempool_tx_count)
CallRecordCoinbaseTx ==
    /\ app = "store"
    /\ \E t \in StoreTxs \cup {TxCB} :
         /\ transactions' = record_coinbase_tx(transactions, t, now)
         /\ ret' = Call("record_coinbase_tx", t, <<>>, "Ok")
    /\ UNCHANGED <<app, mempool, rbf, snapshots, queue, sent, now, pc, result,
                   locals, unflushed, closed>>

\* db.record_pruned_tx(&tx)
CallRecordPrunedTx ==
    /\ app = "store"
    /\ \E t \in StoreTxs, decodes \in BOOLEAN :
         /\ transactions' = record_pruned_tx(transactions, t, now, decodes)
         /\ ret' = Call("record_pruned_tx", t, <<>>,
                        record_pruned_tx_ret(transactions, t, decodes))
    /\ UNCHANGED <<app, mempool, rbf, snapshots, queue, sent, now, pc, result,
                   locals, unflushed, closed>>

\* db.tx_exists(&tx)
CallTxExists ==
    /\ app = "store"
    /\ \E t \in StoreTxs \cup {TxCB} :
         ret' = Call("tx_exists", t, <<>>,
                     IF tx_exists(transactions, t) THEN "Ok(true)" ELSE "Ok(false)")
    /\ UNCHANGED <<app, mempool, store, queue, sent, now, pc, result,
                   locals, unflushed, closed>>

\* db.flush(): no table changes
CallFlush ==
    /\ app = "store"
    /\ ret' = Call("flush", NoTx, <<>>, "Ok")
    /\ UNCHANGED <<app, mempool, store, queue, sent, now, pc, result,
                   locals, unflushed, closed>>

StoreNext ==
    \/ Tick
    \/ CallInsertMempoolTx
    \/ CallRecordCoinbaseTx
    \/ CallRecordMinedTx
    \/ CallRecordPrunedTx
    \/ CallRecordRbf
    \/ CallTxExists
    \/ CallFlush

SpecStore == StoreInit /\ [][StoreNext]_vars

\* ------------------------------------------------ get_inputs_hash alone
MaxInputs == 2

\* inputs over two outpoints; next to the plain one, an input with another
\* signature script, one with another sequence number, one with another witness
HashTxIns ==
    {TxInSig(ExtTxid, v, f[1], f[2], f[3]) :
        v \in {0, 1}, f \in {<<0, 1, 1>>, <<1, 1, 1>>, <<0, 2, 1>>, <<0, 1, 2>>}}

HashInputs == UNION {[1..n -> HashTxIns] : n \in 1..MaxInputs}

\* tx[1] and tx[2] are the two transactions compared
HashInit ==
    /\ app = "hash"
    /\ mempool = {}
    /\ transactions = {}
    /\ rbf = {}
    /\ snapshots = <<>>
    /\ queue = <<>>
    /\ sent = 0
    /\ now = 1
    /\ pc = [w \in Workers |-> "recv"]
    /\ result = [w \in Workers |-> "none"]
    /\ tx \in [Workers -> {[input |-> i, output |-> 1] : i \in HashInputs}]
    /\ is_mined = [w \in Workers |-> FALSE]
    /\ fee = [w \in Workers |-> 0]
    /\ txids = [w \in Workers |-> {}]
    /\ pruned_txids = [w \in Workers |-> {}]
    /\ input_i = [w \in Workers |-> 0]
    /\ clock = [w \in Workers |-> 0]
    /\ unflushed = [w \in Workers |-> FALSE]
    /\ closed = FALSE
    /\ ret = NoCall

\* get_inputs_hash(tx.input) of both transactions
CallGetInputsHash ==
    /\ app = "hash"
    /\ ret = NoCall
    /\ ret' = Call("get_inputs_hash", NoTx, <<>>,
                   [w \in Workers |-> get_inputs_hash(tx[w].input)])
    /\ UNCHANGED <<app, mempool, store, queue, sent, now, pc, result, locals>>
    /\ UNCHANGED <<unflushed, closed>>

HashNext == CallGetInputsHash

SpecHash == HashInit /\ [][HashNext]_vars

\* ------------------------------------------------------------ properties
HashX == get_inputs_hash(TxX.input)

\* C1: the transactions table never holds two rows with the same inputs_hash,
\* whatever the backfill and the two workers have done.
AtMostOneRowPerKey ==
    \A r1 \in transactions, r2 \in transactions :
        r1.inputs_hash = r2.inputs_hash => r1 = r2

\* a worker is about to insert a transaction whose inputs_hash already has a row
C1_Witness ==
    \E w \in Workers :
        /\ At(w, "insert_mempool_tx")
        /\ input_i[w] > Len(tx[w].input)
        /\ tx_exists(transactions, tx[w])

\* between its tx_exists and the end of its last store statement
InRegion(w) ==
    /\ result[w] = "run"
    /\ pc[w] \in {"record_mined_tx", "record_rbf", "update_txid_by_inputs_hash",
                  "insert_mempool_tx", "insert_mempool_tx.update"}

\* C2: two workers are never both between the exists check and the mutation
\* for the same inputs_hash.
RawTxRegionExclusive ==
    \A w1 \in Workers, w2 \in Workers :
        (w1 # w2 /\ InRegion(w1) /\ InRegion(w2))
            => get_inputs_hash(tx[w1].input) # get_inputs_hash(tx[w2].input)

\* C3: no record has both mined_at and pruned_at set.
NeverMinedAndPruned ==
    \A r \in transactions :
        ~(r.mined_at # UNIX_EPOCH /\ r.pruned_at # UNIX_EPOCH)

\* C4: a mined_at or pruned_at that is set is never reset to the sentinel.
TerminalNeverReset ==
    [][\A r \in transactions : \A q \in transactions' :
          q.inputs_hash = r.inputs_hash =>
              /\ (r.mined_at # UNIX_EPOCH => q.mined_at # UNIX_EPOCH)
              /\ (r.pruned_at # UNIX_EPOCH => q.pruned_at # UNIX_EPOCH)]_vars

\* C5: a RawTx whose bytes do not decode does not end the worker.
DecodeFailureNotFatal ==
    \A w \in Workers : ~(result[w] = "Err" /\ pc[w] = "consensus_decode")

\* C6: a failing node RPC call does not end the worker.
RpcFailureNotFatal ==
    \A w \in Workers : ~(result[w] = "Err" /\ pc[w] = "get_mempool_info")

EventsFor(events, h) == {e \in events : e.inputs_hash = h}

\* C7: a replacement of a record that has no replacement event yet adds exactly
\* one event for its inputs_hash, carrying the fee the node reported, and the
\* record then carries the id of the replacing transaction.
RbfSequencing ==
    [][\A w \in Workers :
          LET h == get_inputs_hash(tx[w].input)
          IN  /\ (At(w, "record_rbf") /\ pc'[w] = "update_txid_by_inputs_hash"
                    /\ EventsFor(rbf, h) = {})
                   => /\ \E t \in ClockRead(w) :
                            EventsFor(rbf', h) =
                               {[inputs_hash |-> h, created_at |-> t,
                                 fee_total |-> fee[w]]}
                      /\ rbf \subseteq rbf'
              /\ (At(w, "update_txid_by_inputs_hash") /\ pc'[w] = "flush")
                   => /\ \E r \in transactions' : r.inputs_hash = h
                      /\ \A r \in transactions' :
                            r.inputs_hash = h => r.tx_id = txid_bytes(tx[w])
                      /\ EventsFor(rbf', h) # {}]_vars

\* the backfilled TxX was replaced by TxX2: one event, the row carries TxX2's id
C7_Witness ==
    /\ \E r \in transactions :
          /\ r.inputs_hash = HashX
          /\ r.found_at = 1
          /\ r.tx_id = txid_bytes(TxX2)
    /\ Cardinality(EventsFor(rbf, HashX)) = 1
    /\ \A w \in Workers : pc[w] = "recv"

\* C8: no replacement event is ever removed or changed.
ReplacementsAppendOnly ==
    [][\A e \in rbf : e \in rbf']_vars

\* C9: record_coinbase_tx leaves a row keyed by the txid with
\* found_at = mined_at = the time of the call and pruned_at unset.
CoinbaseMinedAtInsertion ==
    [][\A w \in Workers :
          (At(w, "record_coinbase_tx") /\ pc'[w] = "flush")
              => \E r \in transactions' :
                    /\ r.inputs_hash = txid_bytes(tx[w])
                    /\ r.found_at \in ClockRead(w) /\ r.mined_at = r.found_at
                    /\ r.mined_at # UNIX_EPOCH
                    /\ r.pruned_at = UNIX_EPOCH]_vars

\* C10: a PruneCheck selects the ids of exactly the outstanding records absent
\* from the polled mempool, and its batch marks pruned (pruned_at = now) exactly
\* the selected records that are still outstanding; a record whose id is in the
\* polled mempool, or that is mined or pruned, is left as it is.
PruningCorrect ==
    [][\A w \in Workers :
          /\ (At(w, "check_for_pruned_txs") /\ pc'[w] = "record_pruned_txs")
               => pruned_txids'[w] =
                    {r.tx_id : r \in {q \in transactions :
                                        Outstanding(q) /\ q.tx_id \notin txids'[w]}}
          /\ (At(w, "record_pruned_txs") /\ pc'[w] = "check_for_pruned_txs.flush")
               => /\ now # UNIX_EPOCH
                  /\ \A r \in transactions :
                        IF Outstanding(r) /\ r.tx_id \in pruned_txids[w]
                        THEN /\ r.tx_id \notin txids[w]
                             /\ [r EXCEPT !.pruned_at = now] \in transactions'
                             /\ r \notin transactions'
                        ELSE r \in transactions'
                  /\ \A r \in transactions :
                        (r.tx_id \in txids[w] \/ ~Outstanding(r))
                            => r \in transactions'
                  /\ Cardinality(transactions') = Cardinality(transactions)]_vars

\* TxX and TxY were outstanding, the polled mempool held only TxX: TxY is
\* pruned, TxX is untouched
C10_Witness ==
    /\ \E r \in transactions :
          r.tx_id = txid_bytes(TxX) /\ Outstanding(r) /\ r.found_at = 1
    /\ \E r \in transactions :
          /\ r.tx_id = txid_bytes(TxY)
          /\ r.pruned_at # UNIX_EPOCH /\ r.mined_at = UNIX_EPOCH
    /\ \A w \in Workers : pc[w] = "recv"
RowsFor(table, h) == {r \in table : r.inputs_hash = h}

\* C11: a non-coinbase RawTx whose node queries succeed is dispatched by
\* (exists, confirmed): unknown inputs_hash -> a fresh row with found_at, mined_at
\* and pruned_at all unset; known and confirmed -> mined_at = the time
\* record_mined_tx read on its row;
\* known and unconfirmed -> a replacement event with the fee the node reported.
\* The decision itself and the other rows and tables are left alone.
RawTxDispatch ==
    [][\A w \in Workers :
          LET h == get_inputs_hash(tx[w].input)
              known == tx_exists(transactions, tx[w])
          IN  /\ (At(w, "tx_exists") /\ pc'[w] # "tx_exists" /\ result'[w] = "run")
                   => /\ store' = store
                      /\ pc'[w] = "insert_mempool_tx" <=> ~known
                      /\ pc'[w] = "record_mined_tx" <=> (known /\ is_mined[w])
                      /\ pc'[w] \in {"record_rbf", "recv"} <=> (known /\ ~is_mined[w])
              /\ (At(w, "insert_mempool_tx") /\ pc'[w] = "flush")
                   => /\ RowsFor(transactions', h) =
                            {Row(h, txid_bytes(tx[w]), consensus_encode(tx[w]),
                                 UNIX_EPOCH, UNIX_EPOCH, UNIX_EPOCH)}
                      /\ transactions' \ RowsFor(transactions', h) \subseteq transactions
                      /\ rbf' = rbf /\ snapshots' = snapshots
              /\ (At(w, "record_mined_tx") /\ pc'[w] = "flush")
                   => /\ \A r \in RowsFor(transactions', h) :
                            r.mined_at \in ClockRead(w) /\ r.mined_at # UNIX_EPOCH
                      /\ transactions' \ RowsFor(transactions', h) \subseteq transactions
                      /\ Cardinality(transactions') = Cardinality(transactions)
                      /\ rbf' = rbf /\ snapshots' = snapshots
              /\ (At(w, "record_rbf") /\ pc'[w] = "update_txid_by_inputs_hash")
                   => /\ \E t \in ClockRead(w) :
                            [inputs_hash |-> h, created_at |-> t,
                             fee_total |-> fee[w]] \in rbf'
                      /\ fee[w] \in Fees
                      /\ transactions' = transactions /\ snapshots' = snapshots]_vars

\* a record that came in by the stream (found_at unset) was later reported
\* confirmed and marked mined
C11_Witness ==
    /\ \E r \in transactions :
          /\ r.inputs_hash = HashX
          /\ r.found_at = UNIX_EPOCH
          /\ r.mined_at # UNIX_EPOCH
          /\ r.pruned_at = UNIX_EPOCH
    /\ \A w \in Workers : pc[w] = "recv"
\* a step that is a call of op
Called(op) == ret'.op = op /\ (ret' # ret \/ store' # store)

\* C12: record_mined and record_rbf for an inputs_hash that has no record return
\* NotFound and leave every table as it was.
UnknownHashIsNotFound ==
    [][((Called("record_mined_tx") \/ Called("record_rbf"))
          /\ ~tx_exists(transactions, ret'.tx))
        => (ret'.value = "NotFound" /\ store' = store)]_vars
\* worker v is not touched by the step
Untouched(v) ==
    /\ pc'[v] = pc[v] /\ result'[v] = result[v] /\ tx'[v] = tx[v]
    /\ txids'[v] = txids[v] /\ is_mined'[v] = is_mined[v]

\* C13: the queue never exceeds its capacity; a send completes only when there
\* is room and appends its task, a receive removes exactly the head for exactly
\* one worker, and nothing else changes the queue: no task is dropped,
\* overwritten or handed to two workers.
QueueBoundedNoLoss ==
    /\ [](Len(queue) <= QueueCap)
    /\ [][/\ sent' # sent
              => /\ sent' = sent + 1
                 /\ Len(queue) < QueueCap
                 /\ Len(queue') = Len(queue) + 1
                 /\ SubSeq(queue', 1, Len(queue)) = queue
          /\ (sent' = sent /\ queue' # queue)
              => /\ queue # <<>>
                 /\ queue' = Tail(queue)
                 /\ \E w \in Workers :
                       /\ At(w, "recv")
                       /\ \A v \in Workers \ {w} : Untouched(v)]_vars

\* the queue is full, so that no further send can complete, while one worker
\* is busy with a task it received earlier
C13_Witness ==
    /\ Len(queue) = QueueCap
    /\ sent > QueueCap
    /\ \E w \in Workers : result[w] = "run" /\ pc[w] # "recv"

\* what worker w looks like right after it received task t
Received(w, t) ==
    CASE t.kind = "MempoolState" ->
            \/ pc'[w] = "record_mempool_state" /\ result'[w] = "run"
            \/ pc'[w] = "get_mempool_info" /\ result'[w] = "Err"
      [] t.kind = "PruneCheck" -> pc'[w] = "check_for_pruned_txs"
      [] OTHER ->
            LET d == consensus_decode(t.bytes)
            IN  IF ~d.ok THEN pc'[w] = "consensus_decode" /\ result'[w] = "Err"
                ELSE \/ /\ tx'[w] = d.tx
                        /\ pc'[w] = IF is_coinbase(d.tx) THEN "record_coinbase_tx"
                                                        ELSE "tx_exists"
                     \/ /\ ~is_coinbase(d.tx)
                        /\ pc'[w] = "recv" /\ tx'[w] = NoTx

\* C14: the queue is first-in-first-out for every kind of task: a send adds at
\* the tail and keeps the order of what is queued, a receive hands the oldest
\* task to the worker, whatever its kind.
FifoOrder ==
    [][queue' # queue
        => IF Len(queue') > Len(queue)
           THEN SubSeq(queue', 1, Len(queue)) = queue
           ELSE /\ queue' = Tail(queue)
                /\ \E w \in Workers : At(w, "recv") /\ Received(w, Head(queue))]_vars

\* a MempoolState task was received while a PruneCheck sent after it waits
C14_Witness ==
    /\ Len(queue) = 1
    /\ queue[1].kind = "PruneCheck"
    /\ \E w \in Workers : At(w, "record_mempool_state")
    /\ \E w \in Workers : At(w, "recv")
\* every worker has left its loop
AllTerminated == \A w \in Workers : result[w] \in {"Ok", "Err", "cancelled"}

\* C15: after the queue is closed the workers drain it and then exit cleanly:
\* once every worker has terminated after a close, the queue is empty and
\* every worker has returned Ok.
DrainThenExit ==
    (closed /\ AllTerminated)
        => (queue = <<>> /\ \A w \in Workers : result[w] = "Ok")

\* C16: a worker is back at its receive with nothing unflushed: every task that
\* wrote to the store flushed before the next task is received.
FlushedBeforeNextTask ==
    \A w \in Workers : At(w, "recv") => ~unflushed[w]

\* C20: while the queue is open at least one worker remains in its loop.
SomeWorkerRemains ==
    (app = "run" /\ ~closed) => \E w \in Workers : result[w] = "run"
\* the store holds the backfill record of startup mempool entry e
Backfilled(table, e) ==
    \E r \in table :
        /\ r.inputs_hash = get_inputs_hash(e.tx.input)
        /\ r.tx_id = txid_bytes(e.tx)
        /\ r.found_at = e.time
        /\ r.mined_at = UNIX_EPOCH
        /\ r.pruned_at = UNIX_EPOCH

\* C17: backfill precedes consumption: a worker is spawned only once no startup
\* mempool entry is left to insert, and a task is sent or received only after
\* init has returned; the backfill takes the
\* entries one by one, each step leaving a record with found_at = entry time and
\* mined_at = pruned_at = sentinel, and no later backfill step removes or
\* changes such a record.
BackfillPrecedesConsumption ==
    /\ []((\E w \in Workers : result[w] # "none")
            => (app \in {"backfill", "run", "failed"} /\ mempool = {}))
    /\ []((sent > 0 \/ \E w \in Workers : pc[w] # "recv") => app = "run")
    /\ [][result' # result /\ app # "run" => (app = "backfill" /\ mempool = {})]_vars
    /\ [][(app = "backfill" /\ mempool' # mempool)
            => \E e \in mempool :
                  /\ mempool' = mempool \ {e}
                  /\ Backfilled(transactions', e)]_vars
    /\ [][app = "backfill"
            => \A r \in transactions :
                  Backfilled(transactions',
                             [tx |-> consensus_decode(r.tx_data).tx,
                              time |-> r.found_at])]_vars

\* a task was sent while the store holds the backfill records of a startup
\* mempool of two transactions
C17_Witness ==
    /\ sent > 0
    /\ Backfilled(transactions, [tx |-> TxX, time |-> 1])
    /\ Backfilled(transactions, [tx |-> TxY, time |-> 1])
\* the ordered list of outpoints an input list spends
Outpoints(inputs) == [k \in 1..Len(inputs) |-> inputs[k].previous_output]

\* C18: two input lists have the same hash if and only if they spend the same
\* outpoints in the same order, whatever their signature scripts, sequence
\* numbers and witnesses.
HashIffSameOutpoints ==
    ret.op = "get_inputs_hash"
        => ((ret.value[1] = ret.value[2])
              <=> (Outpoints(tx[1].input) = Outpoints(tx[2].input)))
\* the rows of the record that transaction t is keyed to
RecordOf(table, t) == RowsFor(table, get_inputs_hash(t.input))

\* C19: round trip: insert_mempool_tx with found_at = T leaves one record with
\* found_at = T and mined_at = pruned_at = sentinel; record_mined_tx on an
\* existing record keeps its found_at and pruned_at and sets mined_at to the time
\* of the call, which is not the sentinel.
RoundTripMined ==
    /\ [][(Called("insert_mempool_tx") /\ ret'.arg # None)
            => /\ Cardinality(RecordOf(transactions', ret'.tx)) = 1
               /\ \A r \in RecordOf(transactions', ret'.tx) :
                     /\ r.found_at = ret'.arg[1]
                     /\ r.mined_at = UNIX_EPOCH
                     /\ r.pruned_at = UNIX_EPOCH]_vars
    /\ [][(Called("record_mined_tx") /\ tx_exists(transactions, ret'.tx))
            => /\ Cardinality(RecordOf(transactions', ret'.tx)) = 1
               /\ \A r \in RecordOf(transactions, ret'.tx) :
                     \A r2 \in RecordOf(transactions', ret'.tx) :
                        /\ r2.found_at = r.found_at
                        /\ r2.mined_at = now
                        /\ r2.mined_at # UNIX_EPOCH
                        /\ r2.pruned_at = r.pruned_at]_vars

\* a record inserted with found_at = 1 was marked mined at a later time
C19_Witness ==
    /\ ret.op = "record_mined_tx"
    /\ \E r \in RecordOf(transactions, ret.tx) :
          /\ r.found_at = 1
          /\ r.mined_at > r.found_at
          /\ r.pruned_at = UNIX_EPOCH
\* the step is a failure of the backfill: of the mempool listing, or of the
\* lookup or insert of a listed transaction
BackfillFails ==
    /\ app' = "failed"
    /\ app = "init" \/ (app = "backfill" /\ mempool # {})

\* the records of the table, their parent links left out
Records(table) == {[r EXCEPT !.parent_txid = NULL] : r \in table}

\* C21: a failure during the backfill (the mempool listing, or the lookup or
\* insert of one listed transaction) ends init with the error: no worker has
\* been or is ever spawned, no task is sent or consumed, and the records
\* inserted before the failure stay in the store.
BackfillAllOrNothing ==
    /\ [][BackfillFails
            => /\ \A w \in Workers : result'[w] = "none" /\ pc'[w] = "recv"
               /\ sent' = 0 /\ queue' = <<>>
               /\ Records(transactions') = Records(transactions)
               /\ Cardinality(transactions') = Cardinality(transactions)
               /\ rbf' = rbf /\ snapshots' = snapshots]_vars
    /\ [][app = "failed"
            => /\ app' = "failed"
               /\ result' = result /\ pc' = pc
               /\ sent' = sent /\ queue' = queue
               /\ store' = store]_vars

\* the backfill failed on the second transaction of the startup mempool: the
\* record of the first one is in the store
C21_Witness ==
    /\ app = "failed"
    /\ mempool # {}
    /\ \E e \in {[tx |-> TxX, time |-> 1], [tx |-> TxY, time |-> 1]} :
          e \notin mempool /\ Backfilled(transactions, e)
====
